---- MODULE Spec2Model ----
(***************************************************************************)
(* Medical Search API (backend/server.py): the PBS catalog client, the     *)
(* Google web-search client, the three search handlers, the search-history *)
(* ledger (db.medication_searches) and the health check.                   *)
(*                                                                         *)
(* Text that the code inspects (queries, medicine names, links) is a       *)
(* sequence of one-character strings, so that lower(), the `in` substring  *)
(* test and f-string concatenation are computed as Python computes them.   *)
(* Text the code only copies (codes, manufacturers) is an opaque string.   *)
(***************************************************************************)
EXTENDS Integers, Sequences, FiniteSets, TLC

(***************************************************************************)
(* Bounds of the model                                                     *)
(***************************************************************************)
\* number of requests received in one behaviour
MaxRequests == 2

(***************************************************************************)
(* Program constants                                                       *)
(***************************************************************************)
\* httpx.AsyncClient(timeout=30.0) of the PBS client
PBS_TIMEOUT == 30
\* httpx.AsyncClient(timeout=30.0) of the Google client
GOOGLE_TIMEOUT == 30
\* amt_data.get('results', [])[:10]
RESULT_LIMIT == 10
\* .sort("timestamp", -1).limit(50)
HISTORY_LIMIT == 50

(***************************************************************************)
(* Text                                                                    *)
(***************************************************************************)
Uppers ==
    <<"A", "B", "C", "D", "E", "F", "G", "H", "I", "J", "K", "L", "M",
      "N", "O", "P", "Q", "R", "S", "T", "U", "V", "W", "X", "Y", "Z">>

Lowers ==
    <<"a", "b", "c", "d", "e", "f", "g", "h", "i", "j", "k", "l", "m",
      "n", "o", "p", "q", "r", "s", "t", "u", "v", "w", "x", "y", "z">>

\* the lower-case letter of every upper-case letter
LowerTable ==
    [c \in {Uppers[i] : i \in 1..26} |->
        Lowers[CHOOSE i \in 1..26 : Uppers[i] = c]]

\* str.lower() on one character
LowerChar(c) ==
    IF c \in DOMAIN LowerTable THEN LowerTable[c] ELSE c

\* str.lower()
Lower(s) ==
    [i \in 1..Len(s) |-> LowerChar(s[i])]

\* Python's `sub in s` on strings
Contains(sub, s) ==
    \E a \in {sub}, b \in {s} :
        \E i \in 0..(Len(b) - Len(a)) : SubSeq(b, i + 1, i + Len(a)) = a

KeyParacetamol ==
    <<"p", "a", "r", "a", "c", "e", "t", "a", "m", "o", "l">>

KeyAspirin ==
    <<"a", "s", "p", "i", "r", "i", "n">>

KeyInsulin ==
    <<"i", "n", "s", "u", "l", "i", "n">>

NameParacetamol ==
    <<"P", "a", "r", "a", "c", "e", "t", "a", "m", "o", "l", " ", "5", "0", "0", "m", "g", " ", "T", "a", "b", "l", "e", "t", "s">>

NameAspirin ==
    <<"A", "s", "p", "i", "r", "i", "n", " ", "1", "0", "0", "m", "g", " ", "T", "a", "b", "l", "e", "t", "s">>

NameInsulin ==
    <<"I", "n", "s", "u", "l", "i", "n", " ", "H", "u", "m", "a", "n", " ", "I", "n", "j", "e", "c", "t", "i", "o", "n">>

DemoSuffix ==
    <<" ", "(", "D", "e", "m", "o", " ", "R", "e", "s", "u", "l", "t", ")">>

DomTga ==
    <<"t", "g", "a", ".", "g", "o", "v", ".", "a", "u">>

DomNps ==
    <<"n", "p", "s", ".", "o", "r", "g", ".", "a", "u">>

DomPbs ==
    <<"p", "b", "s", ".", "g", "o", "v", ".", "a", "u">>

DomHealth ==
    <<"h", "e", "a", "l", "t", "h", ".", "g", "o", "v", ".", "a", "u">>

DomMedSafety ==
    <<"m", "e", "d", "i", "c", "i", "n", "e", "s", "a", "f", "e", "t", "y", ".", "g", "o", "v", ".", "a", "u">>

\* the trusted domains, in the order _determine_source tests them
TrustedDomains ==
    <<DomTga, DomNps, DomPbs, DomHealth, DomMedSafety>>

NpsTitlePre ==
    <<"N", "P", "S", " ", "M", "e", "d", "i", "c", "i", "n", "e", " ", "F", "i", "n", "d", "e", "r", " ", "-", " ">>

NpsTitlePost ==
    <<" ", "I", "n", "f", "o", "r", "m", "a", "t", "i", "o", "n">>

NpsLinkPre ==
    <<"h", "t", "t", "p", "s", ":", "/", "/", "w", "w", "w", ".", "n", "p", "s", ".", "o", "r", "g", ".", "a", "u", "/", "m", "e", "d", "i", "c", "i", "n", "e", "-", "f", "i", "n", "d", "e", "r", "?", "q", "=">>

NpsSnipPre ==
    <<"F", "i", "n", "d", " ", "c", "o", "m", "p", "r", "e", "h", "e", "n", "s", "i", "v", "e", " ", "i", "n", "f", "o", "r", "m", "a", "t", "i", "o", "n", " ", "a", "b", "o", "u", "t", " ">>

NpsSnipPost ==
    <<" ", "i", "n", "c", "l", "u", "d", "i", "n", "g", " ", "u", "s", "e", "s", ",", " ", "s", "i", "d", "e", " ", "e", "f", "f", "e", "c", "t", "s", ",", " ", "i", "n", "t", "e", "r", "a", "c", "t", "i", "o", "n", "s", " ", "a", "n", "d", " ", "s", "a", "f", "e", "t", "y", " ", "i", "n", "f", "o", "r", "m", "a", "t", "i", "o", "n", " ", "f", "r", "o", "m", " ", "N", "P", "S", " ", "M", "e", "d", "i", "c", "i", "n", "e", "W", "i", "s", "e", ".">>

TgaTitlePre ==
    <<"T", "G", "A", " ", "-", " ", "T", "h", "e", "r", "a", "p", "e", "u", "t", "i", "c", " ", "G", "o", "o", "d", "s", " ", "A", "d", "m", "i", "n", "i", "s", "t", "r", "a", "t", "i", "o", "n", " ", "-", " ">>

TgaLinkPre ==
    <<"h", "t", "t", "p", "s", ":", "/", "/", "w", "w", "w", ".", "t", "g", "a", ".", "g", "o", "v", ".", "a", "u", "/", "s", "e", "a", "r", "c", "h", "?", "q", "=">>

TgaSnipPre ==
    <<"A", "u", "s", "t", "r", "a", "l", "i", "a", "n", " ", "g", "o", "v", "e", "r", "n", "m", "e", "n", "t", " ", "i", "n", "f", "o", "r", "m", "a", "t", "i", "o", "n", " ", "a", "b", "o", "u", "t", " ">>

TgaSnipPost ==
    <<" ", "r", "e", "g", "u", "l", "a", "t", "i", "o", "n", ",", " ", "s", "a", "f", "e", "t", "y", " ", "a", "l", "e", "r", "t", "s", " ", "a", "n", "d", " ", "p", "r", "o", "d", "u", "c", "t", " ", "i", "n", "f", "o", "r", "m", "a", "t", "i", "o", "n", " ", "f", "r", "o", "m", " ", "t", "h", "e", " ", "T", "h", "e", "r", "a", "p", "e", "u", "t", "i", "c", " ", "G", "o", "o", "d", "s", " ", "A", "d", "m", "i", "n", "i", "s", "t", "r", "a", "t", "i", "o", "n", ".">>

HealthTitlePre ==
    <<"A", "u", "s", "t", "r", "a", "l", "i", "a", "n", " ", "G", "o", "v", "e", "r", "n", "m", "e", "n", "t", " ", "D", "e", "p", "a", "r", "t", "m", "e", "n", "t", " ", "o", "f", " ", "H", "e", "a", "l", "t", "h", " ", "-", " ">>

HealthLinkPre ==
    <<"h", "t", "t", "p", "s", ":", "/", "/", "w", "w", "w", ".", "h", "e", "a", "l", "t", "h", ".", "g", "o", "v", ".", "a", "u", "/", "s", "e", "a", "r", "c", "h", "?", "q", "=">>

HealthSnipPre ==
    <<"O", "f", "f", "i", "c", "i", "a", "l", " ", "g", "o", "v", "e", "r", "n", "m", "e", "n", "t", " ", "h", "e", "a", "l", "t", "h", " ", "i", "n", "f", "o", "r", "m", "a", "t", "i", "o", "n", " ", "a", "b", "o", "u", "t", " ">>

HealthSnipPost ==
    <<" ", "i", "n", "c", "l", "u", "d", "i", "n", "g", " ", "g", "u", "i", "d", "e", "l", "i", "n", "e", "s", ",", " ", "p", "o", "l", "i", "c", "y", " ", "a", "n", "d", " ", "h", "e", "a", "l", "t", "h", " ", "p", "r", "o", "f", "e", "s", "s", "i", "o", "n", "a", "l", " ", "r", "e", "s", "o", "u", "r", "c", "e", "s", ".">>

(***************************************************************************)
(* JSON values read with dict.get                                          *)
(***************************************************************************)
\* a key that the upstream object does not have
JAbsent == [k |-> "absent", v |-> <<>>]

\* a key whose value is JSON null (Python None)
JNull == [k |-> "null", v |-> <<>>]

\* a key whose value is the string s
JStr(s) == [k |-> "str", v |-> s]

\* item.get(key, ''): the default replaces a missing key only, never a null
GetOrEmpty(val) ==
    IF val.k = "absent" THEN JStr(<<>>) ELSE val

\* item.get(key) of a field the code only copies: None unless present
GetOpt(val) ==
    IF val = "absent" THEN "None" ELSE val

(***************************************************************************)
(* PBSMedication and the fallback data of the PBS client                   *)
(***************************************************************************)
\* PBSMedication(...); origin is a ghost field: "live" for a record mapped
\* from an upstream item, "mock" for a record of _get_mock_pbs_data
PBSMedication(origin, pbs_code, drug_name, active_ingredient, manufacturer, atc_code, form_strength, prescriber_type) ==
    [origin |-> origin, pbs_code |-> pbs_code, drug_name |-> drug_name,
     active_ingredient |-> active_ingredient, manufacturer |-> manufacturer,
     atc_code |-> atc_code, form_strength |-> form_strength,
     prescriber_type |-> prescriber_type]

\* mock_medications, in dict order
mock_medications ==
    << [med_name |-> KeyParacetamol,
        med_list |-> << PBSMedication("mock", "1234A", NameParacetamol,
                            "Paracetamol", "Various", "N02BE01",
                            "500mg tablet", "General Practitioner") >>],
       [med_name |-> KeyAspirin,
        med_list |-> << PBSMedication("mock", "5678B", NameAspirin,
                            "Acetylsalicylic acid", "Various", "B01AC06",
                            "100mg tablet", "General Practitioner") >>],
       [med_name |-> KeyInsulin,
        med_list |-> << PBSMedication("mock", "9012C", NameInsulin,
                            "Human insulin", "Novo Nordisk", "A10AB01",
                            "100 units/mL injection", "Endocrinologist") >> ] >>

\* the generic fallback record
DemoRecord(query) ==
    PBSMedication("mock", "DEMO", query \o DemoSuffix,
                  "Active ingredient information unavailable",
                  "Contact healthcare provider", "N/A",
                  "Various strengths available",
                  "Consult healthcare professional")

\* _get_mock_pbs_data matching in one direction only: the key in the query
_get_mock_pbs_data_key_in_query(query) ==
    LET query_lower == Lower(query)
        hit(i) == Contains(mock_medications[i].med_name, query_lower)
        hits == {i \in 1..Len(mock_medications) : hit(i)}
    IN  IF hits # {}
        THEN mock_medications[CHOOSE i \in hits : \A j \in hits : i <= j].med_list
        ELSE << DemoRecord(query) >>

\* _get_mock_pbs_data returning the last matching entry instead of the first
_get_mock_pbs_data_last_match(query) ==
    LET query_lower == Lower(query)
        hit(i) == \/ Contains(mock_medications[i].med_name, query_lower)
                  \/ Contains(query_lower, mock_medications[i].med_name)
        hits == {i \in 1..Len(mock_medications) : hit(i)}
    IN  IF hits # {}
        THEN mock_medications[CHOOSE i \in hits : \A j \in hits : i >= j].med_list
        ELSE << DemoRecord(query) >>

\* PBSAPIClient._get_mock_pbs_data
_get_mock_pbs_data(query) ==
    LET query_lower == Lower(query)
        hit(i) == \/ Contains(mock_medications[i].med_name, query_lower)
                  \/ Contains(query_lower, mock_medications[i].med_name)
        hits == {i \in 1..Len(mock_medications) : hit(i)}
    IN  IF hits # {}
        THEN mock_medications[CHOOSE i \in hits : \A j \in hits : i <= j].med_list
        ELSE << DemoRecord(query) >>

(***************************************************************************)
(* PBSAPIClient.search_medications: the item loop                          *)
(***************************************************************************)
\* items[:n]
Take(items, n) ==
    SubSeq(items, 1, IF Len(items) < n THEN Len(items) ELSE n)

\* One iteration of `for item in ...[:10]`.  raised: the iteration raised
\* (None.lower(), or PBSMedication rejecting drug_name=None); keep: the item
\* matched the query and med is the record appended.
MapAmtItem(item, query) ==
    LET drug_name == GetOrEmpty(item.medicine_name)
        generic_name == GetOrEmpty(item.generic_name)
        q == Lower(query)
        first_raises == drug_name.k = "null"
        first == ~first_raises /\ Contains(q, Lower(drug_name.v))
        second_raises == ~first_raises /\ ~first /\ generic_name.k = "null"
        second == ~first_raises /\ ~first /\ ~second_raises
                  /\ Contains(q, Lower(generic_name.v))
        \* drug_name or generic_name
        name == IF drug_name.v # <<>> THEN drug_name ELSE generic_name
        keep == first \/ second
    IN  [raised |-> first_raises \/ second_raises \/ (keep /\ name.k = "null"),
         keep |-> keep,
         med |-> PBSMedication("live", GetOpt(item.pbs_code), name.v,
                               GetOpt(item.active_ingredient),
                               GetOpt(item.manufacturer),
                               GetOpt(item.atc_code),
                               GetOpt(item.form_and_strength),
                               GetOpt(item.prescriber_type))]

\* The whole loop over items: the iterations run in order up to the first
\* one that raises; medications holds the records appended until then.
MapAmtItems(items, query, medications) ==
    LET steps == [i \in 1..Len(items) |-> MapAmtItem(items[i], query)]
        bad == {i \in 1..Len(items) : steps[i].raised}
        stop == IF bad = {} THEN Len(items) + 1
                ELSE CHOOSE i \in bad : \A j \in bad : i <= j
        kept == SelectSeq(SubSeq(steps, 1, stop - 1), LAMBDA s : s.keep)
    IN  [raised |-> bad # {},
         medications |-> medications \o [i \in 1..Len(kept) |-> kept[i].med]]

(***************************************************************************)
(* GoogleSearchResult and the Google client's pure parts                   *)
(***************************************************************************)
\* GoogleSearchResult(...); origin is a ghost field as in PBSMedication
GoogleSearchResult(origin, title, link, snippet, source) ==
    [origin |-> origin, title |-> title, link |-> link,
     snippet |-> snippet, source |-> source]

\* GoogleSearchClient._determine_source
_determine_source(link) ==
    IF Contains(DomTga, link) THEN "TGA"
    ELSE IF Contains(DomNps, link) THEN "NPS"
    ELSE IF Contains(DomPbs, link) THEN "PBS"
    ELSE IF Contains(DomHealth, link) THEN "Health.gov.au"
    ELSE IF Contains(DomMedSafety, link) THEN "Medicine Safety"
    ELSE "Australian Health"

\* GoogleSearchClient._get_mock_web_results
_get_mock_web_results(query) ==
    << GoogleSearchResult("mock", NpsTitlePre \o query \o NpsTitlePost,
                          NpsLinkPre \o query,
                          NpsSnipPre \o query \o NpsSnipPost, "NPS"),
       GoogleSearchResult("mock", TgaTitlePre \o query,
                          TgaLinkPre \o query,
                          TgaSnipPre \o query \o TgaSnipPost, "TGA"),
       GoogleSearchResult("mock", HealthTitlePre \o query,
                          HealthLinkPre \o query,
                          HealthSnipPre \o query \o HealthSnipPost,
                          "Health.gov.au") >>

\* One iteration of `for item in data.get('items', [])`.  raised: the
\* iteration raised (`"tga.gov.au" in None`, or GoogleSearchResult rejecting
\* title=None or snippet=None).
MapWebItem(item) ==
    LET link == GetOrEmpty(item.link)
        title == GetOrEmpty(item.title)
        snippet == GetOrEmpty(item.snippet)
    IN  [raised |-> link.k = "null" \/ title.k = "null" \/ snippet.k = "null",
         result |-> GoogleSearchResult("live", title.v, link.v, snippet.v,
                                       _determine_source(link.v))]

\* The whole loop over items: the iterations run in order up to the first
\* one that raises; results holds the results appended until then.
MapWebItems(items, results) ==
    LET steps == [i \in 1..Len(items) |-> MapWebItem(items[i])]
        bad == {i \in 1..Len(items) : steps[i].raised}
        stop == IF bad = {} THEN Len(items) + 1
                ELSE CHOOSE i \in bad : \A j \in bad : i <= j
    IN  [raised |-> bad # {},
         results |-> results \o [i \in 1..(stop - 1) |-> steps[i].result]]

(***************************************************************************)
(* Upstream HTTP: what `await client.get(...)` completes with              *)
(***************************************************************************)
\* the get raised httpx.TimeoutException
TimeoutReply == [kind |-> "timeout", status |-> 0, json |-> "none",
                 list |-> [k |-> "absent", v |-> <<>>]]

\* the get raised another httpx error (connection refused, reset, DNS)
ErrorReply == [kind |-> "error", status |-> 0, json |-> "none",
               list |-> [k |-> "absent", v |-> <<>>]]

\* a response with a non-success status
StatusReply(status) == [kind |-> "response", status |-> status,
                        json |-> "none",
                        list |-> [k |-> "absent", v |-> <<>>]]

\* a 200 whose body response.json() cannot decode ("undecodable") or decodes
\* to something that is not a JSON object ("not_object")
BadBodyReply(json) == [kind |-> "response", status |-> 200, json |-> json,
                       list |-> [k |-> "absent", v |-> <<>>]]

\* a 200 whose body is a JSON object; list is the value of its 'results'
\* (PBS) or 'items' (Google) key: k is "absent", "null" or "list"
ObjectReply(k, v) == [kind |-> "response", status |-> 200,
                      json |-> "object", list |-> [k |-> k, v |-> v]]

\* AwaitGet of a client built without a timeout
AwaitGetNoTimeout(hangs, timeout, replies, delays) ==
    IF hangs
    THEN {}
    ELSE {[reply |-> rep, latency |-> d] : rep \in replies, d \in delays}

\* The completions of one awaited get.  hangs: the upstream never answers,
\* and the client's timeout ends the call after `timeout` time units;
\* otherwise the upstream answers with one of `replies` (or the connection
\* fails) after one of the latencies `delays`, all shorter than the timeout.
AwaitGet(hangs, timeout, replies, delays) ==
    IF hangs
    THEN {[reply |-> TimeoutReply, latency |-> timeout]}
    ELSE {[reply |-> rep, latency |-> d] :
             rep \in replies, d \in {e \in delays : e < timeout}}

(***************************************************************************)
(* PBSAPIClient.search_medications, between its awaits                     *)
(***************************************************************************)
\* How a client call ends, as its caller sees it.  exc: an exception left
\* the call; value: the list returned; dropped (ghost): the live records
\* that were mapped and then discarded by the except clause
Returned(value) ==
    [exc |-> FALSE, value |-> value, dropped |-> 0]

\* OnPbsException with the exception raised again instead of handled
OnPbsExceptionReraised(query, medications) ==
    [exc |-> TRUE, value |-> <<>>, dropped |-> 0]

\* OnPbsException with the fallback data added to the records mapped so far
OnPbsExceptionKeepsLive(query, medications) ==
    [exc |-> FALSE, value |-> medications \o _get_mock_pbs_data(query),
     dropped |-> Len(medications)]

\* except Exception as e: ... return self._get_mock_pbs_data(query)
\* medications: the local list at the time of the exception
OnPbsException(query, medications) ==
    [exc |-> FALSE, value |-> _get_mock_pbs_data(query),
     dropped |-> Len(medications)]

\* From the schedules response to the AMT request or to a return.
\* next = "amt": the AMT get is issued; next = "return": the call ends.
AfterSchedules(reply, query) ==
    IF reply.kind # "response"
    THEN [next |-> "return", outcome |-> OnPbsException(query, <<>>)]
    ELSE IF reply.status # 200
    THEN [next |-> "return", outcome |-> Returned(_get_mock_pbs_data(query))]
    ELSE IF reply.json # "object"
    THEN [next |-> "return", outcome |-> OnPbsException(query, <<>>)]
    ELSE IF reply.list.k # "list" \/ reply.list.v = <<>>
    THEN [next |-> "return", outcome |-> Returned(_get_mock_pbs_data(query))]
    ELSE IF reply.list.v[1].schedule_code = "absent"
    THEN [next |-> "return", outcome |-> OnPbsException(query, <<>>)]
    ELSE [next |-> "amt", outcome |-> Returned(<<>>)]

\* From the AMT response to the end of the call.
AfterAmt(reply, query) ==
    IF reply.kind # "response"
    THEN OnPbsException(query, <<>>)
    ELSE IF reply.status # 200
    THEN Returned(<<>>)
    ELSE IF reply.json # "object"
    THEN OnPbsException(query, <<>>)
    ELSE IF reply.list.k = "absent"
    THEN Returned(<<>>)
    ELSE IF reply.list.k = "null"
    THEN OnPbsException(query, <<>>)
    ELSE LET loop == MapAmtItems(Take(reply.list.v, RESULT_LIMIT), query, <<>>)
         IN  IF loop.raised
             THEN OnPbsException(query, loop.medications)
             ELSE Returned(loop.medications)

(***************************************************************************)
(* GoogleSearchClient.search_medical_sites                                 *)
(***************************************************************************)
\* `not self.api_key or not self.cse_id`: None and '' are both falsy
Falsy(setting) ==
    setting \in {"None", ""}

\* CredentialsMissing testing the API key only
CredentialsMissingKeyOnly(key, cse) ==
    Falsy(key)

\* the credential test of search_medical_sites
CredentialsMissing(key, cse) ==
    Falsy(key) \/ Falsy(cse)

\* except Exception as e: ... return self._get_mock_web_results(query)
\* results: the local list at the time of the exception
OnGoogleException(query, results) ==
    [exc |-> FALSE, value |-> _get_mock_web_results(query),
     dropped |-> Len(results)]

\* From the Custom Search response to the end of the call.
AfterGoogle(reply, query) ==
    IF reply.kind # "response"
    THEN OnGoogleException(query, <<>>)
    ELSE IF reply.status # 200
    THEN Returned(_get_mock_web_results(query))
    ELSE IF reply.json # "object"
    THEN OnGoogleException(query, <<>>)
    ELSE IF reply.list.k = "absent"
    THEN Returned(<<>>)
    ELSE IF reply.list.k = "null"
    THEN OnGoogleException(query, <<>>)
    ELSE LET loop == MapWebItems(reply.list.v, <<>>)
         IN  IF loop.raised
             THEN OnGoogleException(query, loop.results)
             ELSE Returned(loop.results)

(***************************************************************************)
(* The search-history ledger: db.medication_searches                       *)
(***************************************************************************)
\* MedicationSearch(query=..., search_type=...): id stands for the uuid4,
\* timestamp is datetime.now() as the store keeps it
MedicationSearch(id, query, search_type, timestamp) ==
    [id |-> id, query |-> query, search_type |-> search_type,
     timestamp |-> timestamp]

\* the search_type literal each search handler logs
EndpointType(kind) ==
    CASE kind = "pbs" -> "pbs"
      [] kind = "google" -> "google_search"
      [] kind = "unified" -> "unified"

\* SearchLog with the search_type taken from the request body
SearchLogFromBody(req, id) ==
    MedicationSearch(id, req.query, req.search_type, req.timestamp)

\* search_log of a search handler: the query of the body, the literal of the
\* endpoint, the timestamp taken when the handler started
SearchLog(req, id) ==
    MedicationSearch(id, req.query, EndpointType(req.kind), req.timestamp)

\* insert_one with the write lost
insert_one_lost(collection, document) ==
    collection

\* insert_one(search_log.dict()) when the store accepts the write
insert_one(collection, document) ==
    Append(collection, document)

\* all orders of the members of the set G
Perms(G) ==
    {p \in [1..Cardinality(G) -> G] :
        \A i, j \in 1..Cardinality(G) : i # j => p[i] # p[j]}

\* .sort("timestamp", -1): the orders of the documents with indices S by
\* descending timestamp; documents with equal timestamps come in any order
RECURSIVE SortDesc(_, _)
SortDesc(collection, S) ==
    IF S = {}
    THEN {<<>>}
    ELSE LET newest == CHOOSE i \in S :
                 \A j \in S : collection[j].timestamp <= collection[i].timestamp
             G == {i \in S : collection[i].timestamp = collection[newest].timestamp}
         IN  {p \o rest : p \in Perms(G), rest \in SortDesc(collection, S \ G)}

\* find_sorted without the sort: the first n documents in insertion order
find_unsorted(collection, n) ==
    {Take(collection, n)}

\* find().sort("timestamp", -1).limit(n).to_list(length=None): the lists the
\* store may return
find_sorted(collection, n) ==
    {[i \in 1..Len(Take(order, n)) |-> collection[order[i]]] :
        order \in SortDesc(collection, 1..Len(collection))}

(***************************************************************************)
(* State                                                                   *)
(***************************************************************************)
VARIABLES
    api_key,    \* os.environ.get('GOOGLE_API_KEY'): "None", "" or a key
    cse_id,     \* os.environ.get('GOOGLE_CSE_ID'): "None", "" or an id
    ledger,     \* db.medication_searches, in insertion order
    now,        \* the wall clock, in the store's timestamp resolution
    reqs        \* the requests received, by arrival; one record each

vars == <<api_key, cse_id, ledger, now, reqs>>

\* the body of a response that is not a health report
NoHealth ==
    [status |-> "", database |-> "", pbs_api |-> "", google_search |-> ""]

\* A request at the start of its handler.
\*   kind        the endpoint: "pbs", "google", "unified", "history", "health"
\*   query, search_type   the fields of the MedicationSearchCreate body
\*   timestamp   the timestamp of the request's search_log
\*   pc          the await the handler is suspended at: "insert", "schedules",
\*               "amt", "google", "find"; "done" once it has returned or
\*               raised
\*   logged      "pending", "ok" or "failed": the outcome of insert_one
\*   hangs       whether the upstream of the call in flight never answers
\*   calls       the upstream calls issued for the request so far
\*   status      the HTTP status of the response (0: none yet)
\*   pbs_results, web_results, history, health   the response body
\*   seen        the number of ledger documents at the time of the find
\*   after       (ghost) the searches that had returned 200 when a history
\*               request began
\*   dropped     (ghost) live records discarded by a client's except clause
\*   replies     (ghost) what the upstream calls of the request completed
\*               with, in the order of `calls`
\*   pbs_time, web_time   time spent inside each client
\*   elapsed     time from the start of the handler
NewRequest(kind, query, search_type, timestamp, pc) ==
    [kind |-> kind, query |-> query, search_type |-> search_type,
     timestamp |-> timestamp, pc |-> pc, logged |-> "pending",
     hangs |-> FALSE, calls |-> <<>>, status |-> 0,
     pbs_results |-> <<>>, web_results |-> <<>>, history |-> <<>>,
     health |-> NoHealth, seen |-> 0, after |-> {}, dropped |-> 0,
     replies |-> <<>>,
     pbs_time |-> 0, web_time |-> 0, elapsed |-> 0]

\* the handler returns `status` (200: its result; 500: HTTPException)
Done(req, status) ==
    [req EXCEPT !.pc = "done", !.status = status, !.hangs = FALSE]

\* `await` of a get that took `latency`, inside the client `which`
Waited(req, which, latency) ==
    IF which = "pbs"
    THEN [req EXCEPT !.pbs_time = @ + latency, !.elapsed = @ + latency]
    ELSE [req EXCEPT !.web_time = @ + latency, !.elapsed = @ + latency]

\* the awaited get completed with `reply`
Received(req, reply) ==
    [req EXCEPT !.replies = Append(@, reply)]

\* search_medical_sites ended with `outcome`: the handler returns its
\* result, or its `except Exception` raises HTTPException(status_code=500)
ReturnGoogle(req, outcome) ==
    IF outcome.exc
    THEN Done(req, 500)
    ELSE Done([req EXCEPT !.web_results = outcome.value,
                          !.dropped = @ + outcome.dropped], 200)

\* google_client.search_medical_sites(query) up to its first await: without
\* credentials it returns the mock results at once and the handler returns;
\* with them the Custom Search get is issued
StartGoogle(req, hangs) ==
    IF CredentialsMissing(api_key, cse_id)
    THEN ReturnGoogle(req, Returned(_get_mock_web_results(req.query)))
    ELSE [req EXCEPT !.pc = "google", !.calls = Append(@, "google"),
                     !.hangs = hangs]

\* pbs_client.search_medications(query) up to its first await
StartPbs(req, hangs) ==
    [req EXCEPT !.pc = "schedules", !.calls = Append(@, "schedules"),
                !.hangs = hangs]

\* search_medications ended with `outcome`: search_pbs returns its result,
\* unified_medical_search goes on to `await google_client...`, and the
\* `except Exception` of either raises HTTPException(status_code=500)
ReturnPbs(req, outcome, hangs) ==
    LET got == [req EXCEPT !.pbs_results = outcome.value,
                           !.dropped = @ + outcome.dropped]
    IN  IF outcome.exc
        THEN Done(req, 500)
        ELSE IF req.kind = "pbs"
        THEN Done(got, 200)
        ELSE StartGoogle(got, hangs)

\* the handler's step after `await db.medication_searches.insert_one(...)`
Dispatch(req, hangs) ==
    IF req.kind = "google"
    THEN StartGoogle(req, hangs)
    ELSE StartPbs(req, hangs)

(***************************************************************************)
(* Inputs                                                                  *)
(***************************************************************************)
QPara ==
    <<"P", "a", "r", "a">>

QZz ==
    <<"z", "z">>

QAspirinInsulin ==
    <<"I", "n", "s", "u", "l", "i", "n", " ", "o", "r", " ", "a", "s", "p", "i", "r", "i", "n">>

ItemNameA ==
    <<"P", "A", "R", "A", "C", "E", "T", "A", "M", "O", "L", " ", "5", "0", "0">>

ItemGenericA ==
    <<"p", "a", "r", "a", "c", "e", "t", "a", "m", "o", "l">>

ItemNameB ==
    <<"I", "b", "u", "p", "r", "o", "f", "e", "n">>

LinkTga ==
    <<"h", "t", "t", "p", "s", ":", "/", "/", "w", "w", "w", ".", "t", "g", "a", ".", "g", "o", "v", ".", "a", "u", "/", "a">>

LinkPbsHealth ==
    <<"h", "t", "t", "p", "s", ":", "/", "/", "w", "w", "w", ".", "p", "b", "s", ".", "g", "o", "v", ".", "a", "u", "/", "h", "e", "a", "l", "t", "h", ".", "g", "o", "v", ".", "a", "u">>

LinkOther ==
    <<"h", "t", "t", "p", "s", ":", "/", "/", "e", "x", "a", "m", "p", "l", "e", ".", "o", "r", "g", "/", "x">>

TitleA ==
    <<"P", "a", "r", "a">>

\* an item of the AMT listing with the optional fields missing
AmtItem(medicine_name, generic_name) ==
    [medicine_name |-> medicine_name, generic_name |-> generic_name,
     pbs_code |-> "absent", active_ingredient |-> "absent",
     manufacturer |-> "absent", atc_code |-> "absent",
     form_and_strength |-> "absent", prescriber_type |-> "absent"]

ItemFull ==
    [medicine_name |-> JStr(ItemNameA), generic_name |-> JStr(ItemGenericA),
     pbs_code |-> "2622B", active_ingredient |-> "paracetamol",
     manufacturer |-> "GSK", atc_code |-> "N02BE01",
     form_and_strength |-> "500 mg tablet", prescriber_type |-> "MP"]

ItemOther == AmtItem(JStr(ItemNameB), JAbsent)

ItemGenericOnly == AmtItem(JAbsent, JStr(ItemGenericA))

ItemNoNames == AmtItem(JAbsent, JAbsent)

ItemNullName == AmtItem(JNull, JStr(ItemGenericA))

ItemNullGeneric == AmtItem(JStr(ItemNameB), JNull)

ItemOnlyNullGeneric == AmtItem(JAbsent, JNull)

AmtItems ==
    {ItemFull, ItemOther, ItemGenericOnly, ItemNoNames, ItemNullName,
     ItemNullGeneric, ItemOnlyNullGeneric}

\* n copies of item
Repeat(item, n) ==
    [i \in 1..n |-> item]

\* the AMT pages: every page of at most two items, and pages longer than
\* the result limit
AmtPages ==
    {<<>>} \cup {<<a>> : a \in AmtItems}
           \cup {<<a, b>> : a \in AmtItems, b \in AmtItems}
           \cup {Repeat(ItemOther, RESULT_LIMIT) \o <<ItemFull>>,
                 Repeat(ItemFull, RESULT_LIMIT + 1),
                 Repeat(ItemFull, RESULT_LIMIT) \o <<ItemNullName>>}

\* the bodies and failures of the schedules call
SchedulesReplies ==
    {ErrorReply, StatusReply(500), BadBodyReply("undecodable"),
     BadBodyReply("not_object"), ObjectReply("absent", <<>>),
     ObjectReply("list", <<>>),
     ObjectReply("list", <<[schedule_code |-> "absent"]>>),
     ObjectReply("list", <<[schedule_code |-> "4321"]>>)}

\* the bodies and failures of the AMT items call
AmtReplies ==
    {ErrorReply, StatusReply(404), BadBodyReply("undecodable"),
     BadBodyReply("not_object"), ObjectReply("absent", <<>>),
     ObjectReply("null", <<>>)}
    \cup {ObjectReply("list", page) : page \in AmtPages}

\* an item of the Custom Search response
WebItem(title, link, snippet) ==
    [title |-> title, link |-> link, snippet |-> snippet]

WebItems ==
    {WebItem(JStr(TitleA), JStr(LinkTga), JStr(TitleA)),
     WebItem(JAbsent, JStr(LinkPbsHealth), JAbsent),
     WebItem(JStr(TitleA), JAbsent, JStr(TitleA)),
     WebItem(JStr(TitleA), JStr(LinkOther), JNull),
     WebItem(JNull, JStr(LinkOther), JStr(TitleA)),
     WebItem(JStr(TitleA), JNull, JStr(TitleA))}

\* the bodies and failures of the Custom Search call
GoogleReplies ==
    {ErrorReply, StatusReply(403), BadBodyReply("undecodable"),
     BadBodyReply("not_object"), ObjectReply("absent", <<>>),
     ObjectReply("null", <<>>), ObjectReply("list", <<>>)}
    \cup {ObjectReply("list", <<a>>) : a \in WebItems}
    \cup {ObjectReply("list", <<a, b>>) : a \in WebItems, b \in WebItems}

\* MedicationSearchCreate(query=..., search_type=...)
MedicationSearchCreate(query, search_type) ==
    [query |-> query, search_type |-> search_type]

\* the queries of the client-level runs
Queries ==
    {<<>>, QPara, QZz, QAspirinInsulin}

\* the request bodies of the client-level runs; "unified" is the default of
\* search_type
Bodies ==
    {MedicationSearchCreate(q, "unified") : q \in Queries}

\* the settings of an environment variable: unset, empty or set
Settings ==
    {"None", "", "set"}

\* the inputs of the service-level runs, where requests interleave
\* the body sent to each endpoint: two different queries, and a search_type
\* that names the endpoint (unified) or another one (pbs, google)
ServiceBodies(kind) ==
    CASE kind = "pbs" -> {MedicationSearchCreate(QPara, "unified")}
      [] kind = "google" -> {MedicationSearchCreate(QZz, "pbs")}
      [] kind = "unified" -> {MedicationSearchCreate(QPara, "unified")}

ServiceSchedulesReplies ==
    {ObjectReply("list", <<[schedule_code |-> "4321"]>>)}

ServiceAmtReplies ==
    {ObjectReply("list", <<ItemFull, ItemOther>>)}

ServiceGoogleReplies ==
    {ObjectReply("list", <<WebItem(JStr(TitleA), JStr(LinkTga), JStr(TitleA))>>)}

\* the schedules call of an upstream that is down: connection refused, or
\* an error status
UnavailableReplies ==
    {ErrorReply, StatusReply(500)}

\* the request bodies of the fallback runs: those of the client-level runs
\* and the query "paracetamol"
FallbackBodies ==
    Bodies \cup {MedicationSearchCreate(KeyParacetamol, "pbs")}

\* the latencies of an upstream call that answers
Delays ==
    {1, 3}

ServiceDelays ==
    {1}

\* <<GOOGLE_API_KEY, GOOGLE_CSE_ID>>: configured, and the id missing
ServiceSettings ==
    {<<"set", "set">>, <<"set", "None">>}

(***************************************************************************)
(* Initial states                                                          *)
(***************************************************************************)
\* the store as an earlier run of the service left it: HISTORY_LIMIT
\* documents, all older than the clock's start, the two newest logged at
\* the same clock reading
OldLedger ==
    [i \in 1..HISTORY_LIMIT |->
        MedicationSearch(0 - i, QPara, "unified",
                         IF i = HISTORY_LIMIT THEN 0 - 1 ELSE i - HISTORY_LIMIT)]

InitWith(settings, collection) ==
    /\ \E s \in settings : api_key = s[1] /\ cse_id = s[2]
    /\ ledger = collection
    /\ now = 0
    /\ reqs = <<>>

\* the service starts on an empty store
Init ==
    InitWith(ServiceSettings, <<>>)

\* the client-level runs: every setting of the credentials
InitClient ==
    InitWith(Settings \X Settings, <<>>)

\* the service starts on a store that already holds HISTORY_LIMIT documents,
\* without the search-engine id
InitHistory ==
    InitWith({<<"set", "None">>}, OldLedger)

(***************************************************************************)
(* Actions                                                                 *)
(***************************************************************************)
\* The wall clock advances.  Timestamps are only compared with each other,
\* so the clock is counted in the readings that requests can tell apart:
\* it never runs ahead of the number of requests that have read it.
Tick ==
    /\ now < Len(reqs)
    /\ now' = now + 1
    /\ UNCHANGED <<api_key, cse_id, ledger, reqs>>

\* search_pbs / search_google_medical / unified_medical_search up to
\* `await db.medication_searches.insert_one(...)`: search_log is built, with
\* its timestamp, and the insert is issued.  bodies: the request bodies the
\* run draws from; the run takes `limit` requests.
BeginSearch(kind, bodies, limit) ==
    /\ Len(reqs) < limit
    /\ \E body \in bodies :
          reqs' = Append(reqs, NewRequest(kind, body.query, body.search_type,
                                          now, "insert"))
    /\ UNCHANGED <<api_key, cse_id, ledger, now>>

\* insert_one succeeds: the document is in the store, and the handler runs
\* on to its next await (or to its return)
InsertOk(r, upstreams) ==
    /\ reqs[r].pc = "insert"
    /\ ledger' = insert_one(ledger, SearchLog(reqs[r], r))
    /\ \E hangs \in upstreams :
          reqs' = [reqs EXCEPT ![r] = Dispatch([@ EXCEPT !.logged = "ok"], hangs)]
    /\ UNCHANGED <<api_key, cse_id, now>>

\* insert_one raises: the handler's `except Exception` turns it into
\* HTTPException(status_code=500)
InsertFail(r) ==
    /\ reqs[r].pc = "insert"
    /\ reqs' = [reqs EXCEPT ![r] = Done([@ EXCEPT !.logged = "failed"], 500)]
    /\ UNCHANGED <<api_key, cse_id, ledger, now>>

\* the schedules get completes
SchedulesResponse(r, replies, delays, upstreams) ==
    /\ reqs[r].pc = "schedules"
    /\ \E c \in AwaitGet(reqs[r].hangs, PBS_TIMEOUT, replies, delays), hangs \in upstreams :
          \E req \in {Received(Waited(reqs[r], "pbs", c.latency), c.reply)},
             after \in {AfterSchedules(c.reply, reqs[r].query)} :
             reqs' = [reqs EXCEPT ![r] =
                         IF after.next = "amt"
                         THEN [req EXCEPT !.pc = "amt",
                                          !.calls = Append(@, "amt-items"),
                                          !.hangs = hangs]
                         ELSE ReturnPbs(req, after.outcome, hangs)]
    /\ UNCHANGED <<api_key, cse_id, ledger, now>>

\* the AMT items get completes
AmtResponse(r, replies, delays, upstreams) ==
    /\ reqs[r].pc = "amt"
    /\ \E c \in AwaitGet(reqs[r].hangs, PBS_TIMEOUT, replies, delays), hangs \in upstreams :
          \E req \in {Received(Waited(reqs[r], "pbs", c.latency), c.reply)},
             outcome \in {AfterAmt(c.reply, reqs[r].query)} :
             reqs' = [reqs EXCEPT ![r] = ReturnPbs(req, outcome, hangs)]
    /\ UNCHANGED <<api_key, cse_id, ledger, now>>

\* the Custom Search get completes
GoogleResponse(r, replies, delays) ==
    /\ reqs[r].pc = "google"
    /\ \E c \in AwaitGet(reqs[r].hangs, GOOGLE_TIMEOUT, replies, delays) :
          \E req \in {Received(Waited(reqs[r], "google", c.latency), c.reply)},
             outcome \in {AfterGoogle(c.reply, reqs[r].query)} :
             reqs' = [reqs EXCEPT ![r] = ReturnGoogle(req, outcome)]
    /\ UNCHANGED <<api_key, cse_id, ledger, now>>

\* get_search_history up to `await ...to_list(length=None)`
BeginHistory(limit) ==
    /\ Len(reqs) < limit
    /\ reqs' = Append(reqs,
                  [NewRequest("history", <<>>, "none", now, "find")
                      EXCEPT !.after = {r \in 1..Len(reqs) :
                                          /\ reqs[r].pc = "done"
                                          /\ reqs[r].logged = "ok"}])
    /\ UNCHANGED <<api_key, cse_id, ledger, now>>

\* the find completes and the handler returns the documents
FindOk(r) ==
    /\ reqs[r].pc = "find"
    /\ \E found \in find_sorted(ledger, HISTORY_LIMIT) :
          reqs' = [reqs EXCEPT ![r] =
                      Done([@ EXCEPT !.history = found, !.seen = Len(ledger)], 200)]
    /\ UNCHANGED <<api_key, cse_id, ledger, now>>

\* the find raises: HTTPException(status_code=500)
FindFail(r) ==
    /\ reqs[r].pc = "find"
    /\ reqs' = [reqs EXCEPT ![r] = Done(@, 500)]
    /\ UNCHANGED <<api_key, cse_id, ledger, now>>

\* health_check: no await, the report is returned at once
HealthCheck(limit) ==
    /\ Len(reqs) < limit
    /\ reqs' = Append(reqs,
                  Done([NewRequest("health", <<>>, "none", now, "done")
                           EXCEPT !.health =
                               [status |-> "healthy",
                                database |-> "connected",
                                pbs_api |-> "available",
                                google_search |->
                                    IF Falsy(api_key) THEN "not_configured"
                                    ELSE "configured"]],
                       200))
    /\ UNCHANGED <<api_key, cse_id, ledger, now>>

(***************************************************************************)
(* Specifications                                                          *)
(***************************************************************************)
\* the service: requests of every kind, interleaved at their awaits
Next ==
    \/ Tick
    \/ \E kind \in {"pbs", "google", "unified"} :
          BeginSearch(kind, ServiceBodies(kind), MaxRequests)
    \/ BeginHistory(MaxRequests)
    \/ HealthCheck(MaxRequests)
    \/ \E r \in 1..Len(reqs) :
          \/ InsertOk(r, {FALSE})
          \/ InsertFail(r)
          \/ SchedulesResponse(r, ServiceSchedulesReplies, ServiceDelays, {FALSE})
          \/ AmtResponse(r, ServiceAmtReplies, ServiceDelays, {FALSE})
          \/ GoogleResponse(r, ServiceGoogleReplies, ServiceDelays)
          \/ FindOk(r)
          \/ FindFail(r)

Spec == Init /\ [][Next]_vars

\* web searches and history reads on a store that already holds documents
NextHistory ==
    \/ Tick
    \/ BeginSearch("google", ServiceBodies("google"), MaxRequests)
    \/ BeginHistory(MaxRequests)
    \/ \E r \in 1..Len(reqs) :
          \/ InsertOk(r, {FALSE})
          \/ InsertFail(r)
          \/ FindOk(r)
          \/ FindFail(r)

SpecHistory == InitHistory /\ [][NextHistory]_vars

\* the clients: one search request at a time, every upstream reply
NextClient ==
    \/ \E kind \in {"pbs", "google", "unified"} :
          BeginSearch(kind, Bodies, 1)
    \/ \E r \in 1..Len(reqs) :
          \/ InsertOk(r, BOOLEAN)
          \/ InsertFail(r)
          \/ SchedulesResponse(r, SchedulesReplies, Delays, BOOLEAN)
          \/ AmtResponse(r, AmtReplies, Delays, BOOLEAN)
          \/ GoogleResponse(r, GoogleReplies, Delays)

SpecClient == InitClient /\ [][NextClient]_vars

\* one step of the handler of search request r when its upstreams may hang
TimedStep(r) ==
    /\ r \in 1..Len(reqs)
    /\ \/ InsertOk(r, BOOLEAN)
       \/ InsertFail(r)
       \/ SchedulesResponse(r, ServiceSchedulesReplies, Delays, BOOLEAN)
       \/ AmtResponse(r, ServiceAmtReplies, Delays, BOOLEAN)
       \/ GoogleResponse(r, ServiceGoogleReplies, Delays)

\* one search request whose upstream calls answer late or never
NextTimed ==
    \/ \E kind \in {"pbs", "google", "unified"} :
          BeginSearch(kind, Bodies, 1)
    \/ \E r \in 1..Len(reqs) : TimedStep(r)

\* The event loop resumes every handler whose awaited call has completed,
\* and every awaited call completes: the insert with a result or an error,
\* a get with a reply, an error or the client's timeout.
FairSpecTimed ==
    Init /\ [][NextTimed]_vars /\ \A r \in 1..MaxRequests : WF_vars(TimedStep(r))

\* catalog searches, several with the same query, while the catalog upstream
\* is down or does not answer
NextFallback ==
    \/ BeginSearch("pbs", FallbackBodies, MaxRequests)
    \/ \E r \in 1..Len(reqs) :
          \/ InsertOk(r, BOOLEAN)
          \/ InsertFail(r)
          \/ SchedulesResponse(r, UnavailableReplies, ServiceDelays, {FALSE})

SpecFallback == Init /\ [][NextFallback]_vars

(***************************************************************************)
(* Vocabulary of the properties                                            *)
(***************************************************************************)
Requests == 1..Len(reqs)

IsSearch(r) == reqs[r].kind \in {"pbs", "google", "unified"}

UsesPbs(r) == reqs[r].kind \in {"pbs", "unified"}

UsesGoogle(r) == reqs[r].kind \in {"google", "unified"}

\* search_medications has returned to the handler of r
PbsReturned(r) ==
    /\ reqs[r].logged = "ok"
    /\ \/ reqs[r].kind = "pbs" /\ reqs[r].pc = "done" /\ reqs[r].status = 200
       \/ reqs[r].kind = "unified" /\ reqs[r].pc \in {"google", "done"}
          /\ reqs[r].status \in {0, 200}

\* search_medical_sites has returned to the handler of r
GoogleReturned(r) ==
    /\ UsesGoogle(r)
    /\ reqs[r].logged = "ok"
    /\ reqs[r].pc = "done"
    /\ reqs[r].status = 200

Origins(results) == {results[i].origin : i \in 1..Len(results)}

Max(a, b) == IF a < b THEN b ELSE a

(***************************************************************************)
(* C1: for every query and every behaviour of the catalog upstream,        *)
(* search_medications returns a non-empty list.                            *)
(***************************************************************************)
C1_PbsResultNonEmpty ==
    \A r \in Requests : PbsReturned(r) => reqs[r].pbs_results # <<>>

(***************************************************************************)
(* C2: a failure of the append to the history ledger is not surfaced: the  *)
(* search is still dispatched and answered with its results (status 200).  *)
(***************************************************************************)
C2_LogFailureNotSurfaced ==
    \A r \in Requests :
        (IsSearch(r) /\ reqs[r].logged = "failed" /\ reqs[r].pc = "done")
            => reqs[r].status = 200

(***************************************************************************)
(* C3: a unified search runs its two searches concurrently: its duration   *)
(* is at most that of the slower of the two, not their sum.                *)
(***************************************************************************)
C3_UnifiedBoundedBySlower ==
    \A r \in Requests :
        (reqs[r].kind = "unified" /\ reqs[r].pc = "done" /\ reqs[r].status = 200)
            => reqs[r].elapsed <= Max(reqs[r].pbs_time, reqs[r].web_time)

(***************************************************************************)
(* C4: search_medications never propagates an error: whatever the two      *)
(* upstream calls do, its caller gets a list of catalog records, so a      *)
(* request that uses it and has logged its query never ends in the         *)
(* handler's error response because of it.                                 *)
(***************************************************************************)
C4_PbsNeverRaises ==
    \A r \in Requests :
        /\ (UsesPbs(r) /\ reqs[r].logged = "ok" /\ reqs[r].pc = "done")
              => reqs[r].status = 200
        /\ PbsReturned(r) => Origins(reqs[r].pbs_results) \subseteq {"live", "mock"}

\* search_medications has returned a list after one of its calls timed out
C4_Witness ==
    \E r \in Requests :
        /\ PbsReturned(r)
        /\ reqs[r].pbs_time >= PBS_TIMEOUT
        /\ reqs[r].pbs_results # <<>>

(***************************************************************************)
(* C5: search_medical_sites never raises, and without credentials (API key *)
(* or search-engine id not configured) it issues no upstream call and      *)
(* returns the three synthetic results for the query, tagged NPS, TGA and  *)
(* Health.gov.au in that order.                                            *)
(***************************************************************************)
C5_GoogleNeverRaisesAndMockWithoutCredentials ==
    \A r \in Requests :
        /\ (UsesGoogle(r) /\ reqs[r].logged = "ok" /\ reqs[r].pc = "done")
              => reqs[r].status = 200
        /\ (GoogleReturned(r) /\ (Falsy(api_key) \/ Falsy(cse_id)))
              => /\ \A i \in 1..Len(reqs[r].calls) : reqs[r].calls[i] # "google"
                 /\ Len(reqs[r].web_results) = 3
                 /\ [i \in 1..3 |-> reqs[r].web_results[i].source]
                       = <<"NPS", "TGA", "Health.gov.au">>
                 /\ \A i \in 1..3 :
                       /\ reqs[r].web_results[i].origin = "mock"
                       /\ Contains(reqs[r].query, reqs[r].web_results[i].title)
                       /\ Contains(reqs[r].query, reqs[r].web_results[i].link)

\* a web search has returned with the API key set and the engine id missing
C5_Witness ==
    \E r \in Requests :
        /\ GoogleReturned(r)
        /\ ~Falsy(api_key)
        /\ Falsy(cse_id)
        /\ Len(reqs[r].web_results) = 3

(***************************************************************************)
(* C6: the ledger record happens before dispatch: whenever an upstream     *)
(* call has been issued for a request, or a search has returned, the       *)
(* ledger holds the request's entry; and a history read begun after a      *)
(* search has returned holds an entry with its query and search type       *)
(* (unless HISTORY_LIMIT entries at least as recent crowd it out).         *)
(***************************************************************************)
EntryOf(r) ==
    [id |-> r, query |-> reqs[r].query,
     search_type |-> EndpointType(reqs[r].kind),
     timestamp |-> reqs[r].timestamp]

Crowded(r, seen) ==
    Cardinality({k \in 1..seen : /\ ledger[k].id # r
                                 /\ ledger[k].timestamp >= reqs[r].timestamp})
        >= HISTORY_LIMIT

C6_LoggedBeforeDispatch ==
    \A r \in Requests :
        /\ (IsSearch(r) /\ (reqs[r].calls # <<>> \/ reqs[r].status = 200))
              => \E i \in 1..Len(ledger) : ledger[i] = EntryOf(r)
        /\ (reqs[r].kind = "history" /\ reqs[r].pc = "done" /\ reqs[r].status = 200)
              => \A s \in reqs[r].after :
                    Crowded(s, reqs[r].seen)
                    \/ \E i \in 1..Len(reqs[r].history) :
                          /\ reqs[r].history[i].id = s
                          /\ reqs[r].history[i].query = reqs[s].query
                          /\ reqs[r].history[i].search_type
                                = EndpointType(reqs[s].kind)

\* a search that issued upstream calls has returned, and a history read
\* begun after that holds its entry
C6_Witness ==
    \E h, s \in Requests :
        /\ reqs[s].calls # <<>>
        /\ reqs[h].kind = "history" /\ reqs[h].pc = "done" /\ reqs[h].status = 200
        /\ s \in reqs[h].after
        /\ \E i \in 1..Len(reqs[h].history) : reqs[h].history[i].id = s

(***************************************************************************)
(* C7 as stated: each search request appends exactly one entry.            *)
(***************************************************************************)
EntriesOf(r) == {i \in 1..Len(ledger) : ledger[i].id = r}

C7_EverySearchAppendsOneEntry ==
    \A r \in Requests :
        (IsSearch(r) /\ reqs[r].pc = "done")
            => Cardinality(EntriesOf(r)) = 1

(***************************************************************************)
(* C7 as amended: the ledger is append-only over any sequence of requests. *)
(* Every step leaves the ledger unchanged or appends one entry to it; a    *)
(* search request has exactly one entry once its insert has succeeded and  *)
(* none before that or when the insert fails; the entry's text is the      *)
(* request's query and its category that of the endpoint, whatever the     *)
(* search_type of the body; history and health requests have no entry.     *)
(***************************************************************************)
C7_EntriesMatchRequests ==
    \A r \in Requests :
        /\ Cardinality(EntriesOf(r))
              = IF IsSearch(r) /\ reqs[r].logged = "ok" THEN 1 ELSE 0
        /\ \A i \in EntriesOf(r) : ledger[i] = EntryOf(r)

C7_StepAppendsOrKeeps ==
    \/ ledger' = ledger
    \/ /\ Len(ledger') = Len(ledger) + 1
       /\ SubSeq(ledger', 1, Len(ledger)) = ledger
       /\ \E r \in Requests :
             /\ IsSearch(r)
             /\ reqs[r].pc = "insert"
             /\ ledger'[Len(ledger')] = EntryOf(r)

C7_AppendOnly ==
    []C7_EntriesMatchRequests /\ [][C7_StepAppendsOrKeeps]_vars

\* two searches sent to different endpoints are in the ledger, one of them
\* with a body whose search_type names another endpoint
C7_Witness ==
    /\ Len(ledger) = 2
    /\ ledger[1].search_type # ledger[2].search_type
    /\ \E r \in Requests :
          /\ reqs[r].pc \in {"schedules", "amt", "google", "done"}
          /\ reqs[r].logged = "ok"
          /\ reqs[r].search_type # EndpointType(reqs[r].kind)

(***************************************************************************)
(* C8 as stated: a history read returns at most 50 entries, the most       *)
(* recent ones, strictly descending by timestamp.                          *)
(***************************************************************************)
HistoryReturned(h) ==
    reqs[h].kind = "history" /\ reqs[h].pc = "done" /\ reqs[h].status = 200

C8_StrictlyDescending ==
    \A h \in Requests :
        HistoryReturned(h)
            => \A i, j \in 1..Len(reqs[h].history) :
                  i < j => reqs[h].history[i].timestamp
                              > reqs[h].history[j].timestamp

(***************************************************************************)
(* C8 as amended: a history read returns at most 50 entries, they are the  *)
(* most recent ones of the ledger as it was at the read, and they are in   *)
(* non-increasing order of timestamp (entries with equal timestamps come   *)
(* in either order).                                                       *)
(***************************************************************************)
C8_RecentFirstAtMostLimit ==
    \A h \in Requests :
        HistoryReturned(h)
            => LET hist == reqs[h].history
                   seen == reqs[h].seen
                   got  == {hist[i] : i \in 1..Len(hist)}
               IN  /\ Len(hist) <= HISTORY_LIMIT
                   /\ Len(hist) = IF seen < HISTORY_LIMIT THEN seen
                                  ELSE HISTORY_LIMIT
                   /\ Cardinality(got) = Len(hist)
                   /\ \A e \in got : \E k \in 1..seen : ledger[k] = e
                   /\ \A i, j \in 1..Len(hist) :
                         i < j => hist[i].timestamp >= hist[j].timestamp
                   /\ \A k \in 1..seen :
                         ledger[k] \notin got
                            => \A e \in got : e.timestamp >= ledger[k].timestamp

\* a read of a ledger longer than the limit returned HISTORY_LIMIT entries,
\* two of them with the same timestamp
C8_Witness ==
    \E h \in Requests :
        /\ HistoryReturned(h)
        /\ reqs[h].seen > HISTORY_LIMIT
        /\ Len(reqs[h].history) = HISTORY_LIMIT
        /\ reqs[h].history[2].timestamp = reqs[h].history[3].timestamp

(***************************************************************************)
(* C9: every upstream call is time-bounded, so every search request        *)
(* eventually completes with a response even if an upstream never answers: *)
(* a call that has not answered after the 30-unit timeout counts as failed *)
(* and the request goes on with fallback data.                             *)
(***************************************************************************)
\* a get of the PBS client timed out: answered calls are shorter
PbsTimedOut(r) == reqs[r].pbs_time >= PBS_TIMEOUT

GoogleTimedOut(r) == reqs[r].web_time >= GOOGLE_TIMEOUT

C9_TimeoutsFallBack ==
    \A r \in Requests :
        /\ reqs[r].elapsed <= 2 * PBS_TIMEOUT + GOOGLE_TIMEOUT
        /\ (PbsReturned(r) /\ PbsTimedOut(r))
              => Origins(reqs[r].pbs_results) = {"mock"}
        /\ (GoogleReturned(r) /\ GoogleTimedOut(r))
              => Origins(reqs[r].web_results) = {"mock"}

C9_EveryRequestCompletes ==
    /\ []C9_TimeoutsFallBack
    /\ \A r \in 1..MaxRequests :
          (r <= Len(reqs))
             ~> (r <= Len(reqs) /\ reqs[r].pc = "done")

\* a unified search has returned although a call of its catalog search and
\* the call of its web search both hung
C9_Witness ==
    \E r \in Requests :
        /\ reqs[r].kind = "unified"
        /\ reqs[r].pc = "done"
        /\ reqs[r].status = 200
        /\ PbsTimedOut(r)
        /\ GoogleTimedOut(r)
        /\ Origins(reqs[r].pbs_results) = {"mock"}
        /\ Origins(reqs[r].web_results) = {"mock"}

(***************************************************************************)
(* C10: the result of one client invocation (catalog or web) is never a    *)
(* mix of live and synthetic records, also when an error occurs after live *)
(* records have been mapped.                                               *)
(***************************************************************************)
C10_NeverMixed ==
    \A r \in Requests :
        /\ PbsReturned(r) => Cardinality(Origins(reqs[r].pbs_results)) <= 1
        /\ GoogleReturned(r) => Cardinality(Origins(reqs[r].web_results)) <= 1

\* a catalog search returned after an error that followed mapped records
C10_Witness ==
    \E r \in Requests :
        /\ reqs[r].kind = "pbs"
        /\ PbsReturned(r)
        /\ reqs[r].dropped > 0
        /\ reqs[r].pbs_results # <<>>

(***************************************************************************)
(* C11: for all queries, the empty one included, and all item payloads,    *)
(* items without a primary name, a generic name or both included, every    *)
(* record returned by search_medications has a non-empty name.             *)
(***************************************************************************)
C11_NamesNonEmpty ==
    \A r \in Requests :
        PbsReturned(r)
            => \A i \in 1..Len(reqs[r].pbs_results) :
                  reqs[r].pbs_results[i].drug_name # <<>>

(***************************************************************************)
(* C12: with the catalog upstream unavailable, search_medications(q) is a  *)
(* function of q alone: the record of the first seeded entry (paracetamol, *)
(* aspirin, insulin) whose name contains the lowercased query or is        *)
(* contained in it, otherwise one generic record whose name embeds the     *)
(* query; two calls with the same query return the same list.              *)
(***************************************************************************)
\* the schedules call of r failed: no answer, no connection, or an error
\* status
Unavailable(r) ==
    /\ reqs[r].replies # <<>>
    /\ \/ reqs[r].replies[1].kind # "response"
       \/ reqs[r].replies[1].status # 200

C12_FallbackDeterministic ==
    /\ \A r \in Requests :
          (PbsReturned(r) /\ Unavailable(r))
             => LET q == Lower(reqs[r].query)
                    res == reqs[r].pbs_results
                    Matches(key) == Contains(key, q) \/ Contains(q, key)
                IN  /\ Len(res) = 1
                    /\ res[1].origin = "mock"
                    /\ IF Matches(KeyParacetamol)
                       THEN /\ res[1].pbs_code = "1234A"
                            /\ res[1].drug_name = NameParacetamol
                       ELSE IF Matches(KeyAspirin)
                       THEN /\ res[1].pbs_code = "5678B"
                            /\ res[1].drug_name = NameAspirin
                       ELSE IF Matches(KeyInsulin)
                       THEN /\ res[1].pbs_code = "9012C"
                            /\ res[1].drug_name = NameInsulin
                       ELSE /\ res[1].pbs_code = "DEMO"
                            /\ res[1].drug_name = reqs[r].query \o DemoSuffix
    /\ \A r, s \in Requests :
          (/\ PbsReturned(r) /\ Unavailable(r)
           /\ PbsReturned(s) /\ Unavailable(s)
           /\ reqs[r].query = reqs[s].query)
             => reqs[r].pbs_results = reqs[s].pbs_results

\* two searches for a query that names two seeded drugs have returned, one
\* after a timeout and one after an error status
C12_Witness ==
    \E r, s \in Requests :
        /\ r # s
        /\ reqs[r].query = QAspirinInsulin /\ reqs[s].query = QAspirinInsulin
        /\ PbsReturned(r) /\ Unavailable(r) /\ PbsTimedOut(r)
        /\ PbsReturned(s) /\ Unavailable(s) /\ reqs[s].replies[1].status = 500
        /\ reqs[r].pbs_results[1].pbs_code = "5678B"

(***************************************************************************)
(* C13 as stated: for the empty query on the catalog path with the live    *)
(* upstream unavailable, the request is answered without a server error    *)
(* and the result is the single generic fallback record, whose name embeds *)
(* the empty string.                                                       *)
(***************************************************************************)
\* a catalog request with the empty query has ended after its history entry
\* was written and its schedules call failed
EmptyQueryEnded(r) ==
    /\ reqs[r].kind = "pbs"
    /\ reqs[r].query = <<>>
    /\ reqs[r].logged = "ok"
    /\ reqs[r].pc = "done"
    /\ Unavailable(r)

C13_EmptyQueryGenericRecord ==
    \A r \in Requests :
        EmptyQueryEnded(r)
            => /\ reqs[r].status = 200
               /\ Len(reqs[r].pbs_results) = 1
               /\ reqs[r].pbs_results[1].pbs_code = "DEMO"
               /\ reqs[r].pbs_results[1].drug_name = DemoSuffix

(***************************************************************************)
(* C13 as amended: for the empty query on the catalog path with the live   *)
(* upstream unavailable, a request whose history entry was written is      *)
(* answered without a server error, and the result is the single record of *)
(* the first seeded entry (Paracetamol 500mg Tablets, code 1234A): the     *)
(* empty string is contained in every seeded name.                         *)
(***************************************************************************)
C13_EmptyQueryFirstSeed ==
    \A r \in Requests :
        EmptyQueryEnded(r)
            => /\ reqs[r].status = 200
               /\ Len(reqs[r].pbs_results) = 1
               /\ reqs[r].pbs_results[1].origin = "mock"
               /\ reqs[r].pbs_results[1].pbs_code = "1234A"
               /\ reqs[r].pbs_results[1].drug_name = NameParacetamol

\* a catalog request with the empty query was answered after its schedules
\* call found no connection
C13_Witness ==
    \E r \in Requests :
        /\ EmptyQueryEnded(r)
        /\ reqs[r].replies[1].kind = "error"
        /\ reqs[r].status = 200
        /\ Len(reqs[r].pbs_results) = 1

(***************************************************************************)
(* C14: on the live catalog path the result is obtained by filtering first *)
(* and truncating second: it is the first 10, in upstream order, of the    *)
(* items of the returned page whose primary or generic name contains the   *)
(* query case-insensitively, so a matching item is left out only when at   *)
(* least 10 matching items precede it.                                     *)
(***************************************************************************)
\* search_medications of r has returned what it mapped from an AMT page:
\* both calls answered 200 with a list and no item raised
LiveReturned(r) ==
    /\ PbsReturned(r)
    /\ Len(reqs[r].replies) >= 2
    /\ reqs[r].calls[2] = "amt-items"
    /\ reqs[r].replies[2].kind = "response"
    /\ reqs[r].replies[2].status = 200
    /\ reqs[r].replies[2].json = "object"
    /\ reqs[r].replies[2].list.k = "list"
    /\ Origins(reqs[r].pbs_results) \subseteq {"live"}

\* the AMT page that r received
PageOf(r) ==
    reqs[r].replies[2].list.v

\* the item's primary or generic name contains the query, case-insensitively
ItemMatches(item, query) ==
    \/ Contains(Lower(query), Lower(item.medicine_name.v))
    \/ Contains(Lower(query), Lower(item.generic_name.v))

\* the name of the record of an item: the primary name, else the generic one
ItemName(item) ==
    IF item.medicine_name.v # <<>> THEN item.medicine_name.v
    ELSE item.generic_name.v

C14_FilterThenTruncate ==
    \A r \in Requests :
        LiveReturned(r)
            => \E q \in {reqs[r].query}, page \in {PageOf(r)} :
                  \E matching \in {SelectSeq(page, LAMBDA item : ItemMatches(item, q))} :
                     /\ Len(reqs[r].pbs_results)
                           = IF Len(matching) < RESULT_LIMIT THEN Len(matching)
                             ELSE RESULT_LIMIT
                     /\ \A i \in 1..Len(reqs[r].pbs_results) :
                           reqs[r].pbs_results[i].drug_name = ItemName(matching[i])

(***************************************************************************)
(* C15: with credentials configured, one web search issues one live query  *)
(* per trusted domain, and the failure of one query does not abort the     *)
(* search: no synthetic data replaces the results of the domains that      *)
(* answered.                                                               *)
(***************************************************************************)
\* the live queries issued by the web search of r
GoogleCalls(r) ==
    {i \in 1..Len(reqs[r].calls) : reqs[r].calls[i] = "google"}

C15_OneQueryPerDomain ==
    \A r \in Requests :
        (GoogleReturned(r) /\ ~CredentialsMissing(api_key, cse_id))
            => /\ Cardinality(GoogleCalls(r)) = Len(TrustedDomains)
               /\ "mock" \notin Origins(reqs[r].web_results)

(***************************************************************************)
(* C16: a successful upstream response whose payload lacks expected fields *)
(* (a version entry without its schedule code, a catalog item without a    *)
(* name or optional field, a web item without title or snippet) is not     *)
(* treated as a fetch failure: the missing fields are absent, the live     *)
(* data is returned and no synthetic data is substituted.                  *)
(***************************************************************************)
\* reply is a 200 whose body is an object holding a list
ListReply(reply) ==
    /\ reply.kind = "response"
    /\ reply.status = 200
    /\ reply.json = "object"
    /\ reply.list.k = "list"

\* the schedules call of r answered with a version entry that has no
\* schedule code
VersionWithoutCode(r) ==
    /\ reqs[r].replies # <<>>
    /\ ListReply(reqs[r].replies[1])
    /\ reqs[r].replies[1].list.v # <<>>
    /\ reqs[r].replies[1].list.v[1].schedule_code = "absent"

\* the AMT call of r answered with items whose fields are present or
\* missing, none of them null
ItemsWithMissingFields(r) ==
    /\ Len(reqs[r].replies) >= 2
    /\ reqs[r].calls[2] = "amt-items"
    /\ ListReply(reqs[r].replies[2])
    /\ \A i \in 1..Len(reqs[r].replies[2].list.v) :
          /\ reqs[r].replies[2].list.v[i].medicine_name.k # "null"
          /\ reqs[r].replies[2].list.v[i].generic_name.k # "null"

\* the Custom Search call of r answered with items whose fields are present
\* or missing, none of them null
WebItemsOf(r) ==
    reqs[r].replies[Len(reqs[r].replies)].list.v

WebItemsWithMissingFields(r) ==
    /\ reqs[r].calls # <<>>
    /\ reqs[r].calls[Len(reqs[r].calls)] = "google"
    /\ Len(reqs[r].replies) = Len(reqs[r].calls)
    /\ ListReply(reqs[r].replies[Len(reqs[r].replies)])
    /\ \A i \in 1..Len(WebItemsOf(r)) :
          /\ WebItemsOf(r)[i].title.k # "null"
          /\ WebItemsOf(r)[i].link.k # "null"
          /\ WebItemsOf(r)[i].snippet.k # "null"

C16_ScheduleWithoutCodeTolerated ==
    \A r \in Requests :
        (PbsReturned(r) /\ VersionWithoutCode(r))
            => "mock" \notin Origins(reqs[r].pbs_results)

C16_ItemsWithoutFieldsTolerated ==
    \A r \in Requests :
        (PbsReturned(r) /\ ItemsWithMissingFields(r))
            => "mock" \notin Origins(reqs[r].pbs_results)

C16_WebItemsWithoutFieldsTolerated ==
    \A r \in Requests :
        (GoogleReturned(r) /\ WebItemsWithMissingFields(r))
            => /\ "mock" \notin Origins(reqs[r].web_results)
               /\ Len(reqs[r].web_results) = Len(WebItemsOf(r))
               /\ \A i \in 1..Len(WebItemsOf(r)) :
                     /\ reqs[r].web_results[i].title = WebItemsOf(r)[i].title.v
                     /\ reqs[r].web_results[i].snippet = WebItemsOf(r)[i].snippet.v

C16_MissingFieldsTolerated ==
    /\ C16_ScheduleWithoutCodeTolerated
    /\ C16_ItemsWithoutFieldsTolerated
    /\ C16_WebItemsWithoutFieldsTolerated

(***************************************************************************)
(* C17: the health report of the web-search dependency agrees with the web *)
(* client in every configuration: google_search is "configured" exactly    *)
(* when the client performs live searches (API key and search-engine id    *)
(* both present) and "not_configured" exactly when the client returns the  *)
(* synthetic set without a live call.                                      *)
(***************************************************************************)
C17_HealthAgreesWithClient ==
    \A r \in Requests :
        (reqs[r].kind = "health" /\ reqs[r].pc = "done")
            => /\ reqs[r].health.google_search = "configured"
                     <=> ~CredentialsMissing(api_key, cse_id)
               /\ reqs[r].health.google_search = "not_configured"
                     <=> CredentialsMissing(api_key, cse_id)

====
